---- MODULE Spec2Model ----
(***************************************************************************)
(* Model of the_snake.py: the Snake and Apple objects, handle_keys and the *)
(* loop of main, one action per step of a loop iteration (a "tick").       *)
(* Cells and directions are pairs <<x, y>>; Python's None is <<>>.         *)
(***************************************************************************)
EXTENDS Integers, Sequences, FiniteSets, TLC

\* ---------------------------------------------------------------- constants
SCREEN_WIDTH == 640
SCREEN_HEIGHT == 480
GRID_SIZE == 20
GRID_WIDTH == SCREEN_WIDTH \div GRID_SIZE
GRID_HEIGHT == SCREEN_HEIGHT \div GRID_SIZE

UP == <<0, -1>>
DOWN == <<0, 1>>
LEFT == <<-1, 0>>
RIGHT == <<1, 0>>

None == <<>>

\* GameObject.__init__: every object's position attribute starts at the centre;
\* Snake never assigns it again.
position == <<SCREEN_WIDTH \div 2, SCREEN_HEIGHT \div 2>>

\* ------------------------------------------------------------------- bounds
\* Loop iterations explored from the start of the game.
MaxTicks == 7
\* Events returned by one pygame.event.get().
MaxEvents == 2
\* Loop iterations explored from the mid-game states of InitEdge.
EdgeTicks == 2

\* Outcomes of the two randint calls of the first draw that are explored
\* (randint(0, GRID_WIDTH), randint(0, GRID_HEIGHT)).
FirstDraws ==
    {<<16, 12>>, <<17, 12>>, <<18, 12>>, <<19, 12>>, <<19, 13>>, <<18, 13>>,
     <<17, 13>>, <<32, 24>>}
\* Outcomes of the two randint(0, GRID_HEIGHT) calls of a redraw that are explored.
ReDraws == {<<16, 12>>, <<17, 14>>, <<24, 24>>}

\* Events delivered by pygame.
Events == {"QUIT", "K_UP", "K_DOWN", "K_LEFT", "K_RIGHT"}

RECURSIVE SeqsUpTo(_, _)
SeqsUpTo(S, n) ==
    IF n = 0 THEN {<<>>}
    ELSE LET shorter == SeqsUpTo(S, n - 1)
         IN shorter \cup {Append(q, e) : q \in {s \in shorter : Len(s) = n - 1}, e \in S}

EventQueues == SeqsUpTo(Events, MaxEvents)

\* ------------------------------------------------------------------ helpers
\* Python's `c in seq`.
In(c, seq) == \E i \in DOMAIN seq : seq[i] = c

\* Python's seq[1:-1].
Inner(seq) == IF Len(seq) <= 2 THEN <<>> ELSE SubSeq(seq, 2, Len(seq) - 1)

Opposite(d) == <<-d[1], -d[2]>>

\* Apple.randomize_position, the first draw (lines 76-79).
FirstCoordinate(r) ==
    <<(r[1] * GRID_SIZE) % SCREEN_WIDTH, (r[2] * GRID_SIZE) % SCREEN_HEIGHT>>

\* Apple.randomize_position, a redraw (lines 84-85).
ReCoordinate(r) == <<r[1] * GRID_SIZE, r[2] * GRID_SIZE>>

\* Faulty variant of occupied: only the head is compared.
occupied_head_only(coordinate, snake_positions) ==
    coordinate = snake_positions[1]

\* Faulty variant of occupied: no cell counts as occupied.
occupied_never(coordinate, snake_positions) == FALSE

\* Apple.randomize_position, line 81: `new_coordinate in snake_positions`.
occupied(coordinate, snake_positions) == In(coordinate, snake_positions)

\* Snake.get_head_position.
get_head_position(positions) == positions[1]

\* Faulty variant of next_position: the x coordinate is not wrapped.
next_position_unwrapped(head, direction) ==
    <<head[1] + GRID_SIZE * direction[1],
      (head[2] + GRID_SIZE * direction[2]) % SCREEN_HEIGHT>>

\* Snake.move, lines 120-123.
next_position(head, direction) ==
    <<(head[1] + GRID_SIZE * direction[1]) % SCREEN_WIDTH,
      (head[2] + GRID_SIZE * direction[2]) % SCREEN_HEIGHT>>

\* Faulty variant of move_positions: the tail is dropped as soon as the target length
\* is reached (>= for >).
move_positions_early_pop(positions, length, direction) ==
    LET inserted == <<next_position(positions[1], direction)>> \o positions
    IN IF Len(inserted) >= length
       THEN SubSeq(inserted, 1, Len(inserted) - 1)
       ELSE inserted

\* Faulty variant of move_positions: the tail is dropped one cell too late
\* (length + 1 for length).
move_positions_late_pop(positions, length, direction) ==
    LET inserted == <<next_position(positions[1], direction)>> \o positions
    IN IF Len(inserted) > length + 1
       THEN SubSeq(inserted, 1, Len(inserted) - 1)
       ELSE inserted

\* Snake.move, lines 124-127: the new positions.
move_positions(positions, length, direction) ==
    LET inserted == <<next_position(get_head_position(positions), direction)>> \o positions
    IN IF Len(inserted) > length
       THEN SubSeq(inserted, 1, Len(inserted) - 1)
       ELSE inserted

\* Faulty variant of move_last: last is read after the pop (lines 126 and 127 swapped).
move_last_after_pop(positions, length, last) ==
    IF Len(positions) + 1 > length
    THEN (<<next_position(positions[1], <<0, 0>>)>> \o positions)[Len(positions)]
    ELSE last

\* Snake.move, lines 125-126: the new value of last.
move_last(positions, length, last) ==
    IF Len(positions) + 1 > length THEN positions[Len(positions)] ELSE last

\* Faulty variant of key_direction: the arrow keys are accepted without a test.
key_direction_unchecked(key, direction, next_direction) ==
    IF key = "K_UP" THEN UP
    ELSE IF key = "K_DOWN" THEN DOWN
    ELSE IF key = "K_LEFT" THEN LEFT
    ELSE IF key = "K_RIGHT" THEN RIGHT
    ELSE next_direction

\* Faulty variant of key_direction: each key is tested against its own direction.
key_direction_same(key, direction, next_direction) ==
    IF key = "K_UP" /\ direction # UP THEN UP
    ELSE IF key = "K_DOWN" /\ direction # DOWN THEN DOWN
    ELSE IF key = "K_LEFT" /\ direction # LEFT THEN LEFT
    ELSE IF key = "K_RIGHT" /\ direction # RIGHT THEN RIGHT
    ELSE next_direction

\* handle_keys, lines 161-168: the pending direction after one KEYDOWN event.
key_direction(key, direction, next_direction) ==
    IF key = "K_UP" /\ direction # DOWN THEN UP
    ELSE IF key = "K_DOWN" /\ direction # UP THEN DOWN
    ELSE IF key = "K_LEFT" /\ direction # RIGHT THEN LEFT
    ELSE IF key = "K_RIGHT" /\ direction # LEFT THEN RIGHT
    ELSE next_direction

\* main, line 189: the self-collision test.
self_collision(positions) == In(get_head_position(positions), Inner(positions))

\* -------------------------------------------------------------------- state
VARIABLES
    positions,        \* snake.positions, head first
    length,           \* snake.length
    direction,        \* snake.direction
    next_direction,   \* snake.next_direction
    last,             \* snake.last
    apple,            \* apple.position
    new_coordinate,   \* local of Apple.randomize_position while it runs
    events,           \* the list pygame.event.get() returned to handle_keys
    ev_i,             \* index of the next event of handle_keys' for loop
    pc,               \* position in main
    ticks_left,       \* loop iterations still explored (the model's bound)
    \* history variables, written but never read by the actions' guards
    tick_direction,   \* snake.direction when the latest tick began
    did_reset,        \* Snake.reset ran in the latest tick
    ate,              \* the food branch (lines 187-188) ran in the latest tick
    before,           \* snake.positions when the latest Snake.move began
    tick_apple,       \* apple.position when the latest tick began
    no_events,        \* pygame.event.get() returned [] in the latest tick
    frame             \* what the latest snake.draw(), apple.draw() were given:
                      \* <<snake.positions, apple.position, snake.last>>

vars == <<positions, length, direction, next_direction, last, apple,
          new_coordinate, events, ev_i, pc, ticks_left,
          tick_direction, did_reset, ate, before, tick_apple, no_events, frame>>

snake == <<positions, length, direction, next_direction, last>>

history == <<tick_direction, did_reset, ate, before, tick_apple, no_events, frame>>

\* main, lines 173-175: Snake() is built, Apple.__init__ has made its first draw.
Init ==
    /\ positions = <<position>>
    /\ length = 1
    /\ direction = RIGHT
    /\ next_direction = None
    /\ last = None
    /\ apple = position
    /\ new_coordinate \in {FirstCoordinate(r) : r \in FirstDraws}
    /\ events = <<>>
    /\ ev_i = 0
    /\ pc = "init_randomize"
    /\ ticks_left = MaxTicks
    /\ tick_direction = None
    /\ did_reset = FALSE
    /\ ate = FALSE
    /\ before = <<>>
    /\ tick_apple = None
    /\ no_events = FALSE
    /\ frame = None

\* Apple.randomize_position, lines 80-82: the drawn cell is free, return it.
RandomizeReturn ==
    /\ pc \in {"init_randomize", "randomize"}
    /\ ~occupied(new_coordinate, positions)
    /\ apple' = new_coordinate
    /\ new_coordinate' = None
    /\ pc' = IF pc = "init_randomize" THEN "tick" ELSE "collide"
    /\ UNCHANGED <<snake, events, ev_i, ticks_left, history>>

\* Apple.randomize_position, lines 83-85: the drawn cell is occupied, draw again.
RandomizeRedraw ==
    /\ pc \in {"init_randomize", "randomize"}
    /\ occupied(new_coordinate, positions)
    /\ \E r \in ReDraws : new_coordinate' = ReCoordinate(r)
    /\ UNCHANGED <<snake, apple, events, ev_i, pc, ticks_left, history>>

\* main, lines 177-179, and handle_keys, line 156: a tick starts and fetches
\* the pending events.
ClockTick ==
    /\ pc = "tick"
    /\ ticks_left > 0
    /\ ticks_left' = ticks_left - 1
    /\ tick_direction' = direction
    /\ did_reset' = FALSE
    /\ ate' = FALSE
    /\ tick_apple' = apple
    /\ \E q \in EventQueues : events' = q
    /\ no_events' = (events' = <<>>)
    /\ ev_i' = 1
    /\ pc' = "handle_keys"
    /\ UNCHANGED <<snake, apple, new_coordinate, before, frame>>

\* Faulty variant of HandleQuit: the QUIT event is passed over and the for
\* loop goes on (no raise).
HandleQuit_skipped ==
    /\ pc = "handle_keys"
    /\ ev_i <= Len(events)
    /\ events[ev_i] = "QUIT"
    /\ ev_i' = ev_i + 1
    /\ UNCHANGED <<snake, apple, new_coordinate, events, pc, ticks_left, history>>

\* handle_keys, lines 157-159: a QUIT event ends the program.
HandleQuit ==
    /\ pc = "handle_keys"
    /\ ev_i <= Len(events)
    /\ events[ev_i] = "QUIT"
    /\ pc' = "quit"
    /\ UNCHANGED <<snake, apple, new_coordinate, events, ev_i, ticks_left, history>>

\* handle_keys, lines 160-168: one KEYDOWN event of the for loop.
HandleKeyDown ==
    /\ pc = "handle_keys"
    /\ ev_i <= Len(events)
    /\ events[ev_i] # "QUIT"
    /\ next_direction' = key_direction(events[ev_i], direction, next_direction)
    /\ ev_i' = ev_i + 1
    /\ UNCHANGED <<positions, length, direction, last, apple, new_coordinate,
                   events, pc, ticks_left, history>>

\* handle_keys returns: the for loop is exhausted.
HandleKeysReturn ==
    /\ pc = "handle_keys"
    /\ ev_i > Len(events)
    /\ events' = <<>>
    /\ ev_i' = 0
    /\ pc' = "draw"
    /\ UNCHANGED <<snake, apple, new_coordinate, ticks_left, history>>

\* main, lines 180-182: snake.draw(), apple.draw(), display.update().
Draw ==
    /\ pc = "draw"
    /\ frame' = <<positions, apple, last>>
    /\ pc' = "update_direction"
    /\ UNCHANGED <<snake, apple, new_coordinate, events, ev_i, ticks_left,
                   tick_direction, did_reset, ate, before, tick_apple, no_events>>

\* Snake.update_direction, lines 111-115.
UpdateDirection ==
    /\ pc = "update_direction"
    /\ IF next_direction # None
       THEN direction' = next_direction /\ next_direction' = None
       ELSE UNCHANGED <<direction, next_direction>>
    /\ pc' = "move"
    /\ UNCHANGED <<positions, length, last, apple, new_coordinate, events, ev_i,
                   ticks_left, history>>

\* Snake.move, lines 117-127.
Move ==
    /\ pc = "move"
    /\ positions' = move_positions(positions, length, direction)
    /\ last' = move_last(positions, length, last)
    /\ before' = positions
    /\ pc' = "eat"
    /\ UNCHANGED <<length, direction, next_direction, apple, new_coordinate,
                   events, ev_i, ticks_left, tick_direction, did_reset, ate,
                   tick_apple, no_events, frame>>

\* main, lines 186-188: the head is on the apple; randomize_position makes
\* its first draw.
Eat ==
    /\ pc = "eat"
    /\ get_head_position(positions) = apple
    /\ length' = length + 1
    /\ \E r \in FirstDraws : new_coordinate' = FirstCoordinate(r)
    /\ ate' = TRUE
    /\ pc' = "randomize"
    /\ UNCHANGED <<positions, direction, next_direction, last, apple, events,
                   ev_i, ticks_left, tick_direction, did_reset, before,
                   tick_apple, no_events, frame>>

\* main, line 186: the head is not on the apple.
NoEat ==
    /\ pc = "eat"
    /\ get_head_position(positions) # apple
    /\ pc' = "collide"
    /\ UNCHANGED <<snake, apple, new_coordinate, events, ev_i, ticks_left, history>>

\* Faulty variant of Reset: the snake is cut down to its head where it is.
Reset_at_head ==
    /\ pc = "collide"
    /\ self_collision(positions)
    /\ length' = 1
    /\ positions' = <<get_head_position(positions)>>
    /\ \E d \in {UP, DOWN, RIGHT, LEFT} : direction' = d
    /\ did_reset' = TRUE
    /\ pc' = "tick"
    /\ UNCHANGED <<next_direction, last, apple, new_coordinate, events, ev_i,
                   ticks_left, tick_direction, ate, before, tick_apple, no_events,
                   frame>>

\* main, lines 189-190, and Snake.reset, lines 146-151.
Reset ==
    /\ pc = "collide"
    /\ self_collision(positions)
    /\ length' = 1
    /\ positions' = <<position>>
    /\ \E d \in {UP, DOWN, RIGHT, LEFT} : direction' = d
    /\ did_reset' = TRUE
    /\ pc' = "tick"
    /\ UNCHANGED <<next_direction, last, apple, new_coordinate, events, ev_i,
                   ticks_left, tick_direction, ate, before, tick_apple, no_events,
                   frame>>

\* main, line 189: no self-collision is detected.
NoReset ==
    /\ pc = "collide"
    /\ ~self_collision(positions)
    /\ pc' = "tick"
    /\ UNCHANGED <<snake, apple, new_coordinate, events, ev_i, ticks_left, history>>

Next ==
    \/ RandomizeReturn
    \/ RandomizeRedraw
    \/ ClockTick
    \/ HandleQuit
    \/ HandleKeyDown
    \/ HandleKeysReturn
    \/ Draw
    \/ UpdateDirection
    \/ Move
    \/ Eat
    \/ NoEat
    \/ Reset
    \/ NoReset

Spec == Init /\ [][Next]_vars

\* ------------------------------------------------- mid-game states at the edges
\* States of a running game, at the top of the loop, with the snake on the rim
\* of the board: the wrap of Snake.move is only met some 12 to 17 ticks after
\* the start, beyond MaxTicks.
Directions == {UP, DOWN, LEFT, RIGHT}

EdgeHeads ==
    {<<x, y>> : x \in {0, SCREEN_WIDTH - GRID_SIZE}, y \in {0, SCREEN_HEIGHT - GRID_SIZE}}
    \cup {<<0, 240>>, <<SCREEN_WIDTH - GRID_SIZE, 240>>,
          <<320, 0>>, <<320, SCREEN_HEIGHT - GRID_SIZE>>}

EdgeApples == {<<0, 0>>, <<600, 20>>, <<SCREEN_WIDTH - GRID_SIZE, SCREEN_HEIGHT - GRID_SIZE>>}

\* A snake of six cells that ran right along y = 0 across the right edge,
\* turned down and came back left across the left edge.
HookSnake == <<<<620, 20>>, <<0, 20>>, <<0, 0>>, <<620, 0>>, <<600, 0>>, <<580, 0>>>>

\* A one-cell snake that arrived at h after two moves in direction d with no
\* key pressed in the latest tick; with length 2 it has just eaten at h. With
\* length 1 the apple has not moved while the snake crossed the two cells
\* behind h, so it is on neither of them (lines 186-188 would have eaten it).
InitEdgeShort ==
    \E h \in EdgeHeads, d \in Directions, n \in {1, 2} :
        /\ positions = <<h>>
        /\ length = n
        /\ direction = d
        /\ tick_direction = d
        /\ no_events = TRUE
        /\ last = next_position(h, Opposite(d))
        /\ before = <<next_position(h, Opposite(d))>>
        /\ ate = (n = 2)
        /\ tick_apple = IF n = 2 THEN h ELSE apple
        /\ frame = <<before, tick_apple,
                     next_position(next_position(h, Opposite(d)), Opposite(d))>>
        /\ n = 1 => (apple # before[1] /\ apple # frame[3])

\* The hook snake after a move without growth: its latest tick began heading
\* DOWN, handle_keys accepted a K_LEFT and update_direction turned it LEFT.
InitEdgeHook ==
    /\ positions = HookSnake
    /\ length = Len(HookSnake)
    /\ direction = LEFT
    /\ tick_direction = DOWN
    /\ no_events = FALSE
    /\ last = <<560, 0>>
    /\ before = Tail(HookSnake) \o <<(<<560, 0>>)>>
    /\ ate = FALSE
    /\ tick_apple = apple
    /\ frame = <<before, apple, <<540, 0>>>>

InitEdge ==
    /\ apple \in EdgeApples
    /\ InitEdgeShort \/ InitEdgeHook
    /\ ~In(apple, positions)
    /\ next_direction = None
    /\ new_coordinate = None
    /\ events = <<>>
    /\ ev_i = 0
    /\ pc = "tick"
    /\ ticks_left = EdgeTicks
    /\ did_reset = FALSE

SpecEdge == InitEdge /\ [][Next]_vars

\* ------------------------------------------------------------------- claims
\* Cells of a sequence are pairwise distinct.
Distinct(seq) == \A i, j \in DOMAIN seq : i # j => seq[i] # seq[j]

\* A cell is grid-aligned and on the board.
OnBoard(c) ==
    /\ c[1] % GRID_SIZE = 0 /\ 0 <= c[1] /\ c[1] < SCREEN_WIDTH
    /\ c[2] % GRID_SIZE = 0 /\ 0 <= c[2] /\ c[2] < SCREEN_HEIGHT

\* A coordinate one step beyond an edge comes back in at the opposite edge.
WrapTo(v, size) == IF v < 0 THEN v + size ELSE IF v >= size THEN v - size ELSE v

\* The arrow key that asks for direction d.
KeyOf(d) ==
    IF d = UP THEN "K_UP" ELSE IF d = DOWN THEN "K_DOWN"
    ELSE IF d = LEFT THEN "K_LEFT" ELSE "K_RIGHT"

\* C1: a tick that ends without Snake.reset having run never leaves the head
\* on another cell of the snake (any index >= 1, the last one included): such
\* an overlap after the move makes the same tick reset.
C1_HeadOnBodyResets ==
    (pc = "tick" /\ ~did_reset) => ~In(get_head_position(positions), Tail(positions))

\* C2: every Snake.move puts the head at the old head plus one cell in the
\* direction, each axis wrapped independently at the board's size; 620 going
\* right gives 0, 0 going left gives 620, and so for y at 460 and 0.
C2_MoveWraps ==
    [][pc = "move" =>
        LET old == get_head_position(positions)
            new == get_head_position(positions')
        IN /\ new = <<WrapTo(old[1] + direction[1] * GRID_SIZE, SCREEN_WIDTH),
                      WrapTo(old[2] + direction[2] * GRID_SIZE, SCREEN_HEIGHT)>>
           /\ (old[1] = 620 /\ direction = RIGHT) => new[1] = 0
           /\ (old[1] = 0 /\ direction = LEFT) => new[1] = 620
           /\ (old[2] = 460 /\ direction = DOWN) => new[2] = 0
           /\ (old[2] = 0 /\ direction = UP) => new[2] = 460]_vars

\* A move from x = 0 to the left has come out at x = 620.
C2_Witness ==
    /\ pc = "eat"
    /\ direction = LEFT
    /\ get_head_position(before)[1] = 0
    /\ get_head_position(positions) = <<620, get_head_position(before)[2]>>

\* C3: when Apple.randomize_position returns, the position it hands to
\* apple.position is no cell of the snake_positions it was given.
C3_FoodOffSnake ==
    [][(pc \in {"init_randomize", "randomize"} /\ pc' \notin {"init_randomize", "randomize"})
        => ~In(apple', positions)]_vars

\* The food was eaten by a snake of three cells or more and has been relocated.
C3_Witness ==
    /\ pc = "collide"
    /\ ate
    /\ Len(positions) >= 3
    /\ ~In(apple, positions)

\* C4: every cell of the snake and the food cell are grid-aligned and on the
\* board, in every state.
C4_CellsOnBoard ==
    /\ \A i \in DOMAIN positions : OnBoard(positions[i])
    /\ OnBoard(apple)

\* C5: the pending direction is None or is not the reverse of the active
\* direction, in every state, whatever events were delivered.
C5_PendingNotReverse ==
    next_direction = None \/ next_direction # Opposite(direction)

\* handle_keys has accepted one arrow key and then been handed the reverse of
\* the active direction, which left the pending direction alone.
C5_Witness ==
    /\ pc = "handle_keys"
    /\ ev_i = 3
    /\ events[2] = KeyOf(Opposite(direction))
    /\ next_direction # None
    /\ next_direction # Opposite(direction)

\* C6 as claimed: at the end of every tick the direction is not the reverse of
\* the direction the tick began with, a tick that resets included.
C6_NoReverseInTick ==
    (pc = "tick" /\ tick_direction # None) => direction # Opposite(tick_direction)

\* C6 amended: at the end of every tick in which Snake.reset did not run the
\* direction is not the reverse of the direction the tick began with.
C6_NoReverseWithoutReset ==
    (pc = "tick" /\ tick_direction # None /\ ~did_reset)
        => direction # Opposite(tick_direction)

\* A tick without reset has ended with another direction than it began with.
C6_Witness ==
    /\ pc = "tick"
    /\ tick_direction # None
    /\ ~did_reset
    /\ direction # tick_direction

\* C7: at the end of a tick that reset the snake, the food is on no cell of
\* the reset snake (the claim also wants the food relocated in that tick; the
\* position alone already fails).
C7_FoodOffResetSnake ==
    (pc = "tick" /\ did_reset) => ~In(apple, positions)

\* C8: at the end of every tick the cells of the snake are pairwise distinct.
C8_CellsDistinct ==
    pc = "tick" => Distinct(positions)

\* C9: a move that starts with len(positions) = length removes exactly the
\* cell that was last, records it in snake.last, keeps the other old cells in
\* order behind the new head and leaves the number of cells unchanged.
C9_MoveDropsTail ==
    [][(pc = "move" /\ Len(positions) = length) =>
        /\ Tail(positions') = SubSeq(positions, 1, Len(positions) - 1)
        /\ last' = positions[Len(positions)]
        /\ Len(positions') = Len(positions)]_vars

\* A snake of three cells or more has moved without growing.
C9_Witness ==
    /\ pc = "eat"
    /\ Len(before) = length
    /\ Len(before) >= 3
    /\ last = before[Len(before)]
    /\ Len(positions) = Len(before)

\* C10: a move that starts with len(positions) < length removes no cell: the
\* old cells follow the new head in their order, and the move changes neither
\* snake.length nor snake.last.
C10_GrowthKeepsTail ==
    [][(pc = "move" /\ Len(positions) < length) =>
        /\ Tail(positions') = positions
        /\ Len(positions') = Len(positions) + 1
        /\ length' = length
        /\ last' = last]_vars

\* A snake of two cells or more has grown by one cell in a move.
C10_Witness ==
    /\ pc = "eat"
    /\ Len(before) < length
    /\ Len(before) >= 2
    /\ Tail(positions) = before

\* C11: at every tick boundary the snake has at most length cells.
C11_CellsWithinLength ==
    pc = "tick" => Len(positions) <= length

\* A tick that ate has ended with a snake of three cells or more, one short
\* of its target length.
C11_Witness ==
    /\ pc = "tick"
    /\ ate
    /\ Len(positions) >= 3
    /\ Len(positions) < length

\* C12: the first tick of a game that starts with the food at (340, 240) and
\* gets no event ends with length 2, the head on (340, 240) and the food on
\* another cell, which is no cell of the snake.
C12_FirstTickEats ==
    (/\ pc = "tick"
     /\ ticks_left = MaxTicks - 1
     /\ before = <<(<<320, 240>>)>>
     /\ tick_direction = RIGHT
     /\ tick_apple = <<340, 240>>
     /\ no_events)
    => /\ length = 2
       /\ get_head_position(positions) = <<340, 240>>
       /\ apple # <<340, 240>>
       /\ ~In(apple, positions)

\* The first tick has run without events from the food at (340, 240).
C12_Witness ==
    /\ pc = "tick"
    /\ ticks_left = MaxTicks - 1
    /\ tick_apple = <<340, 240>>
    /\ no_events
    /\ length = 2
    /\ positions = <<(<<340, 240>>)>>

\* C13: every Snake.reset leaves positions = [(320, 240)], length = 1 and one
\* of the four directions, and where the reset runs each of the four
\* directions is a possible outcome.
C13_ResetState ==
    [][/\ (~did_reset /\ did_reset') =>
            /\ positions' = <<(<<320, 240>>)>>
            /\ length' = 1
            /\ direction' \in {UP, DOWN, LEFT, RIGHT}
       /\ (pc = "collide" /\ self_collision(positions)) =>
            \A d \in {UP, DOWN, LEFT, RIGHT} :
                ENABLED (Next /\ did_reset' /\ direction' = d)]_vars

\* A snake of six cells has been reset and now points another way than the
\* tick began.
C13_Witness ==
    /\ pc = "tick"
    /\ did_reset
    /\ Len(before) >= 5
    /\ positions = <<position>>
    /\ length = 1
    /\ direction # tick_direction

\* C14: right after a reset the pending direction and the erase target are
\* both None.
C14_ResetClears ==
    (pc = "tick" /\ did_reset) => (next_direction = None /\ last = None)

\* C15: a QUIT event taken by handle_keys ends the run at once: the step
\* changes nothing of the snake or the food, and no step follows it.
C15_QuitStops ==
    [][/\ (pc = "handle_keys" /\ ev_i <= Len(events) /\ events[ev_i] = "QUIT")
            => (pc' = "quit" /\ UNCHANGED <<snake, apple>>)
       /\ pc # "quit"]_vars

\* The run has ended on a QUIT with an arrow key behind it in the list, a key
\* handle_keys would have accepted, and the pending direction is still None.
C15_Witness ==
    /\ pc = "quit"
    /\ ev_i < Len(events)
    /\ events[ev_i + 1] \in {KeyOf(d) : d \in {UP, DOWN, LEFT, RIGHT} \ {direction, Opposite(direction)}}
    /\ next_direction = None

\* The scheduling of the program: one thread that always takes its next step,
\* and random draws that are fair, so that a redraw that can give a free cell
\* gives one in the end.
Fairness ==
    /\ WF_vars(Next)
    /\ SF_vars(RandomizeRedraw /\ ~occupied(new_coordinate', positions))

FairSpec == Spec /\ Fairness

\* C16, as claimed: without a QUIT the loop is never stuck (a step is possible
\* in every state but the last one explored), and a self-collision, the head
\* on any other cell after the move, ends its tick in the reset state.
C16_LoopGoesOn ==
    [][/\ (pc' # "quit" /\ ~(pc' = "tick" /\ ticks_left' = 0)) => (ENABLED Next)'
       /\ (pc = "collide" /\ In(get_head_position(positions), Tail(positions)))
            => (pc' = "tick" /\ positions' = <<position>> /\ length' = 1)]_vars

\* C16, the part on progress alone: under fair draws every tick that has
\* started comes to its end or to a QUIT, and a tick boundary with ticks left
\* to explore is followed by the next tick.
C16_TicksComplete ==
    /\ (pc \notin {"tick", "quit"}) ~> (pc \in {"tick", "quit"})
    /\ (pc = "tick" /\ ticks_left > 0) ~> (pc = "handle_keys")

\* C17: the frame rendered in a tick shows the snake and the food as they are
\* at the end of that tick, after its move and its checks.
C17_FrameAfterMove ==
    (pc = "tick" /\ frame # None) => (frame[1] = positions /\ frame[2] = apple)

\* C18: no tick both eats (length incremented, food relocated) and resets.
C18_EatXorReset ==
    ~(ate /\ did_reset)

\* A tick has run the food test on a snake of six cells, found no food and
\* reset the snake.
C18_Witness ==
    /\ pc = "tick"
    /\ did_reset
    /\ ~ate
    /\ Len(before) >= 5

\* C19: at the end of every tick the snake has length or length - 1 cells,
\* and length - 1 exactly when the tick ate.
C19_GrowthLagsByOne ==
    pc = "tick" =>
        /\ Len(positions) \in {length, length - 1}
        /\ (Len(positions) = length - 1) <=> ate

\* A tick has eaten right after a tick that ate: the move grew the snake and
\* the target length moved on by one again.
C19_Witness ==
    /\ pc = "tick"
    /\ ate
    /\ Len(positions) = Len(before) + 1
    /\ Len(positions) = length - 1

\* C20: when Snake.draw runs, snake.last is None or no cell of the snake.
C20_EraseOffSnake ==
    pc = "draw" => (last = None \/ ~In(last, positions))

====
